---- MODULE Spec2Model ----
(***************************************************************************)
(* Legal intelligence agent: the feedback store (rag_agent/feedback.py),   *)
(* the precedent retriever (rag_agent/retriever.py) and the orchestrator   *)
(* (rag_agent/agent.py).                                                   *)
(*                                                                         *)
(* Numbers.  Boosts and scores are fixed-point integers in units of 1e-5   *)
(* (0.02 is 2000, 0.2 is 20000), similarities are in hundredths,           *)
(* level weights in tenths.                                                *)
(*                                                                         *)
(* Texts.  A text is kept as the set of the phrases the code searches it   *)
(* for (trigger phrases, key terms) that occur in its lower-cased form.    *)
(*                                                                         *)
(* Specifications.  Spec is the feedback store alone: long runs of         *)
(* record_feedback on one document id, with failing writes.  SpecRank is   *)
(* a Retriever over a corpus together with run_agent, evidence_check and   *)
(* submit_feedback on the documents of the corpus.  SpecAgent is one       *)
(* caller of agent.py: run_agent statement by statement, and plan_steps    *)
(* and _verdict_confidence called on their own.  SpecSessions is two       *)
(* sessions of one process in record_feedback, split at its load and its   *)
(* save; SpecScan is one such session next to a retrieve split at the      *)
(* scoring of each document.                                               *)
(***************************************************************************)
EXTENDS Integers, Sequences, FiniteSets, TLC

(***************************************************************************)
(* Bounds of the model.                                                    *)
(***************************************************************************)
\* references to document ids by record_feedback calls (one per call and id
\* listed) in one behaviour of the feedback-store specification
MaxEvents == 12
\* the same in one behaviour of the ranking specification
MaxRankEvents == 1
\* record_feedback calls of one behaviour whose write fails
MaxFaults == 1
\* longest used_doc_ids list of one record_feedback call
MaxIds == 2
\* largest k passed to retrieve
MaxK == 3
\* largest corpus
MaxDocs == 2

\* Doc.id of the i-th document of a corpus
IdOf == <<"d1", "d2", "d3">>
\* document ids feedback events may reference
DocIds == {IdOf[i] : i \in DOMAIN IdOf}
\* notes strings of a feedback event ("" is the default: no notes)
Notes == {"", "n"}
\* outcomes of the write in _save: it succeeds, open() raises and the file is
\* left as it was, or the file is opened (truncated) and the dump raises
IoOutcomes == {"ok", "open_fails", "dump_fails"}

(***************************************************************************)
(* Program constants of feedback.py, in units of 1e-5.                     *)
(***************************************************************************)
BoostDelta == 2000
BoostClip == 20000
StyleMax == 2

VARIABLES
    file,                \* the file at FEEDBACK_PATH: status and parsed content
    default_doc_boosts,  \* the dict object held by DEFAULT_FEEDBACK["doc_boosts"]
    corpus,              \* Retriever.docs
    result,              \* the latest call and what it returned (or that it raised)
    tally,               \* history: per id, the feedback calls that referenced it
    faults,              \* history: record_feedback calls whose write failed
    request,             \* the run_agent call in progress, statement by statement
    sessions,            \* per session, the record_feedback call in progress
    scan                 \* the retrieve call in progress, document by document

vars == <<file, default_doc_boosts, corpus, result, tally, faults, request, sessions, scan>>

\* the calls in progress; the calls that run as one step leave them alone
inflight == <<request, sessions, scan>>

(***************************************************************************)
(* Python dicts as functions with a finite domain.                         *)
(***************************************************************************)
EmptyDict == [x \in {} |-> 0]

Get(d, key, dflt) == IF key \in DOMAIN d THEN d[key] ELSE dflt

Put(d, key, v) == [x \in DOMAIN d \cup {key} |-> IF x = key THEN v ELSE d[x]]

Max(a, b) == IF a >= b THEN a ELSE b

Min(a, b) == IF a <= b THEN a ELSE b

\* round(cur, 4): values are in units of 1e-5, the result is a multiple of 10
Round4(x) == IF x >= 0 THEN ((x + 5) \div 10) * 10 ELSE -((((-x) + 5) \div 10) * 10)

(***************************************************************************)
(* feedback.py                                                             *)
(***************************************************************************)
\* DEFAULT_FEEDBACK as the module holds it now: the three counters are
\* immutable ints, "doc_boosts" is the one shared dict object
DEFAULT_FEEDBACK ==
    [style_bullets |-> 0, style_citations |-> 1, emphasis_proportionality |-> 1,
     doc_boosts |-> default_doc_boosts]

NoData == [missing |-> TRUE]

\* _load: the parsed file with the missing keys filled in from DEFAULT_FEEDBACK,
\* or a shallow copy of DEFAULT_FEEDBACK.  aliased tells whether the returned
\* "doc_boosts" is the dict object of DEFAULT_FEEDBACK itself.
_load ==
    IF file.status = "valid"
    THEN [data |-> [key \in DOMAIN file.data \cup DOMAIN DEFAULT_FEEDBACK |->
                        IF key \in DOMAIN file.data THEN file.data[key]
                        ELSE DEFAULT_FEEDBACK[key]],
          aliased |-> "doc_boosts" \notin DOMAIN file.data]
    ELSE [data |-> DEFAULT_FEEDBACK, aliased |-> TRUE]

\* _save: the file after the write; every exception is swallowed
_save(data, io) ==
    CASE io = "ok" -> [status |-> "valid", data |-> data]
      [] io = "open_fails" -> file
      [] io = "dump_fails" -> [status |-> "corrupt", data |-> NoData]

get_style_flags ==
    LET d == _load.data
    IN [style_bullets |-> Get(d, "style_bullets", 0),
        style_citations |-> Get(d, "style_citations", 1),
        emphasis_proportionality |-> Get(d, "emphasis_proportionality", 1)]

get_doc_boosts == Get(_load.data, "doc_boosts", EmptyDict)

\* faulty variants of BoostStep: only the upper clip bound, the stored boost
\* ignored, no clip at all
BoostStepUpperOnly(boosts, did, delta) ==
    Put(boosts, did, Round4(Min(BoostClip, Get(boosts, did, 0) + delta)))

BoostStepForgetful(boosts, did, delta) ==
    Put(boosts, did, Round4(Max(-BoostClip, Min(BoostClip, delta))))

BoostStepNoClip(boosts, did, delta) ==
    Put(boosts, did, Round4(Get(boosts, did, 0) + delta))

\* one iteration of the loop over used_doc_ids
BoostStep(boosts, did, delta) ==
    LET cur == Max(-BoostClip, Min(BoostClip, Get(boosts, did, 0) + delta))
    IN Put(boosts, did, Round4(cur))

\* the loop over used_doc_ids
RECURSIVE ApplyBoosts(_, _, _)
ApplyBoosts(boosts, ids, delta) ==
    IF ids = <<>> THEN boosts
    ELSE ApplyBoosts(BoostStep(boosts, Head(ids), delta), Tail(ids), delta)

\* faulty variant of StyleBump: the counter is not capped
StyleBumpNoCap(v) == v + 1

\* min(2, int(...) + 1)
StyleBump(v) == Min(StyleMax, v + 1)

\* the style adaptation of record_feedback
StyleUpdate(data, thumbs_up) ==
    IF thumbs_up
    THEN [data EXCEPT !.style_citations = StyleBump(Get(data, "style_citations", 1)),
                      !.emphasis_proportionality =
                          StyleBump(Get(data, "emphasis_proportionality", 1))]
    ELSE [data EXCEPT !.style_bullets = StyleBump(Get(data, "style_bullets", 0))]

\* lines 57-76 of record_feedback on the loaded dict
Updated(loaded, thumbs_up, used_doc_ids, notes) ==
    LET data1 == StyleUpdate(loaded, thumbs_up)
        delta == IF thumbs_up THEN BoostDelta ELSE -BoostDelta
        boosts == ApplyBoosts(Get(data1, "doc_boosts", EmptyDict), used_doc_ids, delta)
        data2 == [data1 EXCEPT !.doc_boosts = boosts]
    IN IF notes # "" THEN Put(data2, "last_notes", notes) ELSE data2

\* the dict record_feedback hands to _save and returns
RecordData(thumbs_up, used_doc_ids, notes) ==
    Updated(_load.data, thumbs_up, used_doc_ids, notes)

Occurrences(ids, d) == Cardinality({i \in DOMAIN ids : ids[i] = d})

IdLists(ids) == UNION {[1..n -> ids] : n \in 0..MaxIds}

Calls(d) == tally[d].ups + tally[d].downs

RECURSIVE TotalCalls(_)
TotalCalls(ids) ==
    IF ids = {} THEN 0
    ELSE LET d == CHOOSE x \in ids : TRUE IN Calls(d) + TotalCalls(ids \ {d})

record_feedback(thumbs_up, used_doc_ids, notes, io, limit) ==
    /\ TotalCalls(DocIds) + Cardinality({used_doc_ids[i] : i \in DOMAIN used_doc_ids}) <= limit
    /\ io # "ok" => faults < MaxFaults
    /\ LET data == RecordData(thumbs_up, used_doc_ids, notes)
       IN /\ file' = _save(data, io)
          \* the loop writes into the loaded dict: when that dict is the one of
          \* DEFAULT_FEEDBACK, the module-level default changes with it
          /\ default_doc_boosts' =
                IF _load.aliased THEN data.doc_boosts ELSE default_doc_boosts
          \* the returned dict is data, the dict handed to _save
          /\ result' = [op |-> "record_feedback"]
    /\ faults' = faults + (IF io = "ok" THEN 0 ELSE 1)
    /\ tally' = [d \in DocIds |->
                    LET n == Occurrences(used_doc_ids, d)
                    IN IF n = 0 THEN tally[d]
                       ELSE [ups |-> tally[d].ups + (IF thumbs_up THEN 1 ELSE 0),
                             downs |-> tally[d].downs + (IF thumbs_up THEN 0 ELSE 1),
                             once |-> tally[d].once /\ n = 1]]
    /\ UNCHANGED <<corpus, inflight>>

\* the ids feedback references in the feedback-store specification
FeedbackIds == {"d1"}

\* no call in progress
NoCall == [status |-> "idle"]

\* the sessions (threads of one process) that submit feedback
Sessions == {"s1", "s2"}

\* record_feedback with the default notes (long runs on one id)
RecordFeedback ==
    \E thumbs_up \in BOOLEAN, used_doc_ids \in IdLists(FeedbackIds), io \in IoOutcomes :
        record_feedback(thumbs_up, used_doc_ids, "", io, MaxEvents)

InitFeedback ==
    /\ file = [status |-> "missing", data |-> NoData]
    /\ default_doc_boosts = EmptyDict
    /\ result = [op |-> "none"]
    /\ tally = [d \in DocIds |-> [ups |-> 0, downs |-> 0, once |-> TRUE]]
    /\ faults = 0
    /\ request = NoCall
    /\ sessions = [s \in Sessions |-> NoCall]
    /\ scan = NoCall

Init ==
    /\ InitFeedback
    /\ corpus = <<>>

Next == RecordFeedback

Spec == Init /\ [][Next]_vars

(***************************************************************************)
(* retriever.py                                                            *)
(***************************************************************************)
CurrentYear == 2025
RecencySpan == 20

\* the key terms of the grounding in agent.py
KeyTerms == {"privacy", "proportionality", "necessity", "safeguards", "biometric", "article 21"}

\* Documents a corpus is built from.  text is kept as the set of key terms
\* that occur in the lower-cased text, level_weight is in tenths.
DocProfiles ==
    {[title |-> "T1", year |-> 2020, level_weight |-> 9, tags |-> {"privacy"},
      text |-> {"privacy", "article 21"}],
     [title |-> "T2", year |-> 2015, level_weight |-> 5, tags |-> {},
      text |-> {}],
     [title |-> "T3", year |-> 2005, level_weight |-> 3, tags |-> {"biometric"},
      text |-> {"biometric"}]}

\* load_docs: a list of Doc with unique ids
Corpora ==
    UNION {{[i \in 1..n |-> [id |-> IdOf[i], title |-> p[i].title, year |-> p[i].year,
                             level_weight |-> p[i].level_weight, tags |-> p[i].tags,
                             text |-> p[i].text]] : p \in [1..n -> DocProfiles]}
           : n \in 0..MaxDocs}

\* the trigger phrases of _issue_keywords
IssueMapping ==
    [privacy |-> {"privacy", "article 21", "fundamental right", "data protection", "personal data"},
     proportionality |-> {"proportionality", "least restrictive", "necessity", "balancing"},
     biometric |-> {"biometric", "aadhaar", "fingerprint", "iris", "face recognition",
                    "facial recognition"},
     safeguards |-> {"safeguards", "oversight", "data protection", "audit", "breach"},
     legality |-> {"statute", "law", "legality", "ultra vires", "backed by law"},
     religion |-> {"article 25", "religion", "religious", "hijab", "turban", "kirpan", "faith",
                   "worship"},
     expression |-> {"article 19(1)(a)", "freedom of speech", "expression", "symbolic", "dress",
                     "slogan"},
     equality |-> {"article 14", "equality", "equal", "discrimination", "arbitrary"},
     trade |-> {"article 19(1)(g)", "trade", "business", "commerce", "e-commerce"},
     assembly |-> {"article 19(1)(b)", "protest", "assembly", "demonstration"},
     internet |-> {"internet", "shutdown", "broadband", "telecom"},
     localization |-> {"localization", "data localization", "cross-border", "data transfer"},
     surveillance |-> {"surveillance", "cctv", "public safety", "tracking"}]

\* _issue_keywords: a text is kept as the set of phrases that occur in its
\* lower-cased form; the result is the set of matched categories
_issue_keywords(text) == {key \in DOMAIN IssueMapping : IssueMapping[key] \cap text # {}}

\* 0.10 * _issue_overlap(tags, kws), in units of 1e-5
OverlapTerm(tags, kws) ==
    IF kws = {} THEN 0 ELSE (10000 * Cardinality(tags \cap kws)) \div Cardinality(kws)

\* 0.15 * _recency(year), in units of 1e-5
RecencyTerm(year) ==
    LET age == Max(0, CurrentYear - year)
    IN Max(0, (15000 * (RecencySpan - age)) \div RecencySpan)

\* base of _precedent_score: sim is in hundredths, the result in units of 1e-5
BaseScore(sim, doc, kws) ==
    550 * sim + RecencyTerm(doc.year) + 2000 * doc.level_weight + OverlapTerm(doc.tags, kws)

\* _precedent_score: the base plus the boost get_doc_boosts() has now
_precedent_score(sim, doc, kws) ==
    LET base == BaseScore(sim, doc, kws)
        boost == Get(get_doc_boosts, doc.id, 0)
    IN base + boost

SeqRange(q) == {q[i] : i \in DOMAIN q}

\* the index lists np.argpartition(-sims, kth=k-1)[:k] followed by
\* np.argsort(-sims[idxs]) can produce: k distinct indices, none left out
\* with a larger similarity than one taken, in non-increasing similarity
\* (the order among equal similarities is not fixed by either call)
TopKBySim(sims, k) ==
    {idxs \in [1..k -> DOMAIN sims] :
        /\ \A i, j \in 1..k : i # j => idxs[i] # idxs[j]
        /\ \A i \in 1..k : \A o \in DOMAIN sims \ SeqRange(idxs) : sims[o] <= sims[idxs[i]]
        /\ \A i \in 1..(k - 1) : sims[idxs[i]] >= sims[idxs[i + 1]]}

\* the list retrieve builds from the chosen indices
Scored(idxs, sims, kws) ==
    [i \in DOMAIN idxs |->
        [score |-> _precedent_score(sims[idxs[i]], corpus[idxs[i]], kws),
         doc |-> corpus[idxs[i]]]]

\* queries: the trigger phrases in the text, and the cosine similarity of
\* the query to every document, in hundredths
QueryTexts == {{}, {"privacy"}, {"privacy", "biometric"}}
SimLevels == {40, 60}
Queries == [text : QueryTexts, sims : [1..Len(corpus) -> SimLevels]]

\* what retrieve(query, k) can return; on an empty corpus embs @ qv (or
\* argpartition with kth = -1 on an empty array) raises
retrieve(query, k) ==
    IF Len(corpus) = 0
    THEN {[raised |-> TRUE]}
    ELSE {[raised |-> FALSE,
           value |-> Scored(idxs, query.sims, _issue_keywords(query.text))]
          : idxs \in TopKBySim(query.sims, Min(k, Len(corpus)))}

Retrieve ==
    \E query \in Queries, k \in 1..MaxK :
        \E r \in retrieve(query, k) :
            /\ result' = IF r.raised THEN [op |-> "retrieve", ret |-> r]
                          ELSE [op |-> "retrieve", query |-> query, k |-> k, ret |-> r]
            /\ UNCHANGED <<file, default_doc_boosts, corpus, tally, faults, inflight>>

(***************************************************************************)
(* agent.py                                                                *)
(***************************************************************************)
\* claims_probe of run_agent: each claim with the key terms in its
\* lower-cased text
claims_probe ==
    <<[claim |-> "Privacy is a fundamental right under Article 21.",
       terms |-> {"privacy", "article 21"}],
      [claim |-> "Any limitation must satisfy proportionality including necessity.",
       terms |-> {"proportionality", "necessity"}],
      [claim |-> "Blanket biometric mandates are intrusive and require robust safeguards.",
       terms |-> {"biometric", "safeguards"}],
      [claim |-> "Legality requires clear statutory backing and oversight.",
       terms |-> {}]>>

\* "title (year)"
Cite(d) == <<d.title, d.year>>

\* evidence_check: per claim the de-duplicated citations; a document is cited
\* when the claim and the document text both contain a key term
evidence_check(claims, top_docs) ==
    [c \in DOMAIN claims |->
        [claim |-> claims[c].claim,
         cites |-> {Cite(top_docs[i].doc) : i \in
                       {j \in DOMAIN top_docs :
                           /\ claims[c].terms \cap KeyTerms # {}
                           /\ top_docs[j].doc.text \cap KeyTerms # {}}}]]

\* the grounding loop of run_agent: the citations are computed from the
\* retrieved documents alone
Grounding(retrieved) ==
    [c \in DOMAIN claims_probe |->
        [claim |-> claims_probe[c].claim,
         cites |-> {Cite(retrieved[i].doc) : i \in
                       {j \in DOMAIN retrieved : retrieved[j].doc.text \cap KeyTerms # {}}}]]

RunK == 5

\* run_agent: retrieval, grounding and the drafting call; a failing retrieve
\* or a failing drafting call propagates to the caller.  Of the returned dict
\* the retrieved list and the grounding are kept.
RunAgent ==
    \E query \in Queries, draft_ok \in BOOLEAN :
        \E r \in retrieve(query, RunK) :
            /\ result' =
                  IF r.raised \/ ~draft_ok
                  THEN [op |-> "run_agent", ret |-> [raised |-> TRUE]]
                  ELSE [op |-> "run_agent", query |-> query,
                        ret |-> [raised |-> FALSE,
                                 value |-> [retrieved |-> r.value,
                                            grounding |-> Grounding(r.value)]]]
            /\ UNCHANGED <<file, default_doc_boosts, corpus, tally, faults, inflight>>

\* evidence_check called on the probe claims and the first n documents
EvidenceCheck ==
    \E n \in 0..Len(corpus) :
        /\ result' = [op |-> "evidence_check",
                      ret |-> [raised |-> FALSE,
                               value |-> evidence_check(claims_probe,
                                            [i \in 1..n |-> [score |-> 0, doc |-> corpus[i]]])]]
        /\ UNCHANGED <<file, default_doc_boosts, corpus, tally, faults, inflight>>

\* submit_feedback on the used_doc_ids of a result: a non-empty list of ids
\* of the corpus, with or without notes
RecordFeedbackRank ==
    \E thumbs_up \in BOOLEAN, notes \in Notes, io \in IoOutcomes :
        \E used_doc_ids \in IdLists({corpus[i].id : i \in DOMAIN corpus}) \ {<<>>} :
            record_feedback(thumbs_up, used_doc_ids, notes, io, MaxRankEvents)

InitRank ==
    /\ InitFeedback
    /\ corpus \in Corpora

NextRank == RecordFeedbackRank \/ Retrieve \/ RunAgent \/ EvidenceCheck

SpecRank == InitRank /\ [][NextRank]_vars

(***************************************************************************)
(* agent.py, one caller: run_agent statement by statement.                 *)
(* Confidences are in units of 0.25e-5 (a quarter of the unit of a score), *)
(* which keeps the mean of two scores and its half exact.                  *)
(***************************************************************************)
ConfBase == 160000
ConfCentre == 50000
ConfStep == 20000
ConfMin == 200000
ConfMax == 360000
\* 0.01, the grain of round(conf, 2)
ConfGrain == 4000

FirstStep == "Confirm enabling law (legality) and legitimate aim."
LastStep == "Draft positions and propose outcome."

\* the steps added for proportionality, privacy, biometric or surveillance
ProportionalitySteps ==
    <<"Assess suitability to the aim.",
      "Assess necessity (less intrusive means).",
      "Assess balancing and safeguards (purpose, storage, oversight).">>

ProportionalityTags == {"proportionality", "privacy", "biometric", "surveillance"}

\* the tags with one conditional step each, in the order of the code
ConditionalSteps ==
    <<[tag |-> "religion", step |-> "Consider Article 25 scope and any 25(2) justifications."],
      [tag |-> "expression",
       step |-> "If Article 19(1)(a) is implicated, analyze reasonableness and proportionality."],
      [tag |-> "trade",
       step |-> "If Article 19(1)(g) is implicated, test reasonableness of restrictions."],
      [tag |-> "equality",
       step |-> "Check Article 14 arbitrariness and equal protection concerns."]>>

\* de-duplicate while preserving order
RECURSIVE Uniq(_, _)
Uniq(steps, seen) ==
    IF steps = <<>> THEN <<>>
    ELSE IF Head(steps) \in seen THEN Uniq(Tail(steps), seen)
         ELSE <<Head(steps)>> \o Uniq(Tail(steps), seen \cup {Head(steps)})

RECURSIVE ConditionalPart(_, _)
ConditionalPart(rules, issues) ==
    IF rules = <<>> THEN <<>>
    ELSE (IF Head(rules).tag \in issues THEN <<Head(rules).step>> ELSE <<>>)
         \o ConditionalPart(Tail(rules), issues)

\* faulty variant of plan_steps: the sub-steps are added for the
\* proportionality tag alone
plan_stepsNarrow(issues) ==
    Uniq(<<FirstStep>>
         \o (IF "proportionality" \in issues THEN ProportionalitySteps ELSE <<>>)
         \o ConditionalPart(ConditionalSteps, issues)
         \o <<LastStep>>, {})

\* plan_steps: issues is used for membership tests only
plan_steps(issues) ==
    Uniq(<<FirstStep>>
         \o (IF issues \cap ProportionalityTags # {} THEN ProportionalitySteps ELSE <<>>)
         \o ConditionalPart(ConditionalSteps, issues)
         \o <<LastStep>>, {})

\* _pretty_issues: the detected keys in priority order, at most five (the
\* label of a key stands for the key)
IssuePriority ==
    <<"legality", "privacy", "proportionality", "religion", "expression", "trade",
      "equality", "assembly", "biometric", "surveillance", "internet", "localization",
      "safeguards">>

_pretty_issues(kws) ==
    LET Detected(key) == key \in kws
        ordered == SelectSeq(IssuePriority, Detected)
    IN SubSeq(ordered, 1, Min(5, Len(ordered)))

RiskTerms ==
    {"blanket", "mandatory", "indefinite", "mass", "facial recognition", "biometric",
     "shutdown", "localization"}

SafeTerms ==
    {"safeguard", "oversight", "exemption", "opt-out", "purpose limitation",
     "data minimization", "sunset"}

RECURSIVE SumScores(_)
SumScores(docs) == IF docs = <<>> THEN 0 ELSE Head(docs).score + SumScores(Tail(docs))

\* faulty variant of ClampConf: the lower bound is missing
ClampConfNoFloor(conf) == Min(ConfMax, conf)

\* max(0.5, min(0.9, conf))
ClampConf(conf) == Max(ConfMin, Min(ConfMax, conf))

\* _verdict_confidence: text is the set of risk and safeguard terms (and
\* trigger phrases) that occur in the lower-cased query; scores are in units
\* of 1e-5, the result in units of 0.25e-5
_verdict_confidence(text, retrieved) ==
    LET top == SubSeq(retrieved, 1, Min(2, Len(retrieved)))
        n == Max(1, Len(top))
        \* 4 * 0.5 * (s - 0.5) with s = sum / n and n in {1, 2}
        half == SumScores(top) * (2 \div n) - 2 * ConfCentre
        conf0 == ConfBase + half
        conf1 == IF text \cap RiskTerms # {} THEN conf0 + ConfStep ELSE conf0
        conf2 == IF text \cap SafeTerms # {} THEN conf1 - ConfStep ELSE conf1
    IN ClampConf(conf2)

\* round(conf, 2): the nearest multiple of 0.01; on a decimal tie the binary
\* value of the float decides, so either neighbour is possible
Round2(conf) ==
    LET lo == (conf \div ConfGrain) * ConfGrain
    IN {r \in {lo, lo + ConfGrain} : 2 * (IF r >= conf THEN r - conf ELSE conf - r) <= ConfGrain}

\* the stages of one run_agent call, in the order of its statements
StageOrder ==
    <<"ISSUES_DETECTED", "PLAN_BUILT", "RETRIEVED", "GROUNDED", "DRAFTED", "SCORED", "DONE">>

Stage == IF request = NoCall THEN "none" ELSE request.stages[Len(request.stages)]

\* outcomes of draft_arguments: a brief, an answer without content (chat
\* yields ""), or the call to the chat service raises
DraftOutcomes == {"brief", "", "raises"}

\* run_agent leaves by an exception: the call frame is gone, the caller gets
\* the exception.  stages (the stages the call reached) and draft_failed
\* (the drafting call raised) are history.
Raise(draft_failed) ==
    /\ request' = NoCall
    /\ result' = [op |-> "run_agent", stages |-> request.stages,
                  draft_failed |-> draft_failed, ret |-> [raised |-> TRUE]]

\* query, raw_issues and issues (one caller: no call of it is in progress)
ReqIssues ==
    /\ request = NoCall
    /\ \E query \in Queries :
          request' = [status |-> "running", stages |-> <<"ISSUES_DETECTED">>, query |-> query,
                      raw_issues |-> _issue_keywords(query.text),
                      issues |-> _pretty_issues(_issue_keywords(query.text)),
                      plan |-> <<>>, retrieved |-> <<>>, grounding |-> <<>>, draft |-> "",
                      conf |-> 0, draft_failed |-> FALSE]
    /\ result' = [op |-> "pending"]
    /\ UNCHANGED <<file, default_doc_boosts, corpus, tally, faults, sessions, scan>>

\* steps = plan_steps(raw_issues)
ReqPlan ==
    /\ Stage = "ISSUES_DETECTED"
    /\ request' = [request EXCEPT !.stages = Append(@, "PLAN_BUILT"),
                                  !.plan = plan_steps(request.raw_issues)]
    /\ UNCHANGED <<file, default_doc_boosts, corpus, result, tally, faults, sessions, scan>>

\* retrieved = retriever.retrieve(query, k=5)
ReqRetrieve ==
    /\ Stage = "PLAN_BUILT"
    /\ \E r \in retrieve(request.query, RunK) :
          IF r.raised
          THEN Raise(FALSE)
          ELSE /\ request' = [request EXCEPT !.stages = Append(@, "RETRIEVED"),
                                             !.retrieved = r.value]
               /\ UNCHANGED result
    /\ UNCHANGED <<file, default_doc_boosts, corpus, tally, faults, sessions, scan>>

\* the grounding loop
ReqGround ==
    /\ Stage = "RETRIEVED"
    /\ request' = [request EXCEPT !.stages = Append(@, "GROUNDED"),
                                  !.grounding = Grounding(request.retrieved)]
    /\ UNCHANGED <<file, default_doc_boosts, corpus, result, tally, faults, sessions, scan>>

\* faulty variant of ReqDraft: a failing drafting call is swallowed and the
\* request goes on with an empty draft
ReqDraftSwallow ==
    /\ Stage = "GROUNDED"
    /\ \E outcome \in DraftOutcomes :
          request' = [request EXCEPT !.stages = Append(@, "DRAFTED"),
                                     !.draft = IF outcome = "raises" THEN "" ELSE outcome,
                                     !.draft_failed = (outcome = "raises")]
    /\ UNCHANGED <<file, default_doc_boosts, corpus, result, tally, faults, sessions, scan>>

\* draft = draft_arguments(...): no handler around the call, an exception of
\* the chat service leaves run_agent
ReqDraft ==
    /\ Stage = "GROUNDED"
    /\ \E outcome \in DraftOutcomes :
          IF outcome = "raises"
          THEN Raise(TRUE)
          ELSE /\ request' = [request EXCEPT !.stages = Append(@, "DRAFTED"),
                                             !.draft = outcome]
               /\ UNCHANGED result
    /\ UNCHANGED <<file, default_doc_boosts, corpus, tally, faults, sessions, scan>>

\* conf = _verdict_confidence(query, retrieved)
ReqScore ==
    /\ Stage = "DRAFTED"
    /\ request' = [request EXCEPT !.stages = Append(@, "SCORED"),
                                  !.conf = _verdict_confidence(request.query.text,
                                                               request.retrieved)]
    /\ UNCHANGED <<file, default_doc_boosts, corpus, result, tally, faults, sessions, scan>>

\* return {...}
ReqReturn ==
    /\ Stage = "SCORED"
    /\ \E confidence \in Round2(request.conf) :
          result' = [op |-> "run_agent", stages |-> Append(request.stages, "DONE"),
                     draft_failed |-> request.draft_failed,
                     ret |-> [raised |-> FALSE,
                              value |-> [issues |-> request.issues, plan |-> request.plan,
                                         retrieved |-> request.retrieved,
                                         grounding |-> request.grounding,
                                         draft |-> request.draft,
                                         confidence |-> confidence,
                                         used_doc_ids |->
                                            [i \in 1..Min(4, Len(request.retrieved)) |->
                                                request.retrieved[i].doc.id]]]]
    /\ request' = NoCall
    /\ UNCHANGED <<file, default_doc_boosts, corpus, tally, faults, sessions, scan>>

\* longest list _verdict_confidence is called on directly
MaxScores == 3

\* scores of the documents of such a list: below zero, ordinary, and above
\* one (level_weight is any float of the corpus file)
ScoreLevels == {-20000, 60000, 250000}

\* query texts of such a call
ConfTexts == {{}, {"biometric"}, {"safeguard"}, {"biometric", "safeguard"}}

\* the issue tags plan_steps tests for
PlanTags == ProportionalityTags \cup {ConditionalSteps[i].tag : i \in DOMAIN ConditionalSteps}

\* plan_steps called on a list of issue tags
PlanSteps ==
    /\ request = NoCall
    /\ \E issues \in SUBSET PlanTags :
          result' = [op |-> "plan_steps", issues |-> issues,
                     ret |-> [raised |-> FALSE, value |-> plan_steps(issues)]]
    /\ UNCHANGED <<file, default_doc_boosts, corpus, tally, faults, inflight>>

\* _verdict_confidence called on a query and a list of scored documents
VerdictConfidence ==
    /\ request = NoCall
    /\ \E text \in ConfTexts :
          \E retrieved \in UNION {[1..n -> [score : ScoreLevels]] : n \in 0..MaxScores} :
              result' = [op |-> "_verdict_confidence", text |-> text, retrieved |-> retrieved,
                         ret |-> [raised |-> FALSE,
                                  value |-> _verdict_confidence(text, retrieved)]]
    /\ UNCHANGED <<file, default_doc_boosts, corpus, tally, faults, inflight>>

\* a corpus of three documents, one of each profile
ScenarioCorpus ==
    LET Profile(t) == CHOOSE p \in DocProfiles : p.title = t
        titles == <<"T1", "T2", "T3">>
    IN [i \in 1..3 |-> [id |-> IdOf[i], title |-> Profile(titles[i]).title,
                        year |-> Profile(titles[i]).year,
                        level_weight |-> Profile(titles[i]).level_weight,
                        tags |-> Profile(titles[i]).tags, text |-> Profile(titles[i]).text]]

\* the feedback file after ten thumbs-up events on d1 and ten thumbs-down
\* events on d2
SaturatedFile ==
    [status |-> "valid",
     data |-> [style_bullets |-> StyleMax, style_citations |-> StyleMax,
               emphasis_proportionality |-> StyleMax,
               doc_boosts |-> [d \in {"d1", "d2"} |->
                                  IF d = "d1" THEN BoostClip ELSE -BoostClip]]]

\* a process that starts with no feedback file or with the saturated one,
\* over an empty corpus or the scenario corpus
InitAgent ==
    /\ file \in {[status |-> "missing", data |-> NoData], SaturatedFile}
    /\ default_doc_boosts = EmptyDict
    /\ result = [op |-> "none"]
    /\ tally = [d \in DocIds |-> [ups |-> 0, downs |-> 0, once |-> TRUE]]
    /\ faults = 0
    /\ request = NoCall
    /\ sessions = [s \in Sessions |-> NoCall]
    /\ scan = NoCall
    /\ corpus \in {<<>>, ScenarioCorpus}

NextAgent ==
    \/ ReqIssues \/ ReqPlan \/ ReqRetrieve \/ ReqGround \/ ReqDraft \/ ReqScore \/ ReqReturn
    \/ PlanSteps \/ VerdictConfidence

SpecAgent == InitAgent /\ [][NextAgent]_vars

(***************************************************************************)
(* Concurrent sessions of one process (the sessions of app.py are threads  *)
(* of one server process): record_feedback split at its load and its save, *)
(* retrieve split at the scoring of each document.                         *)
(***************************************************************************)
\* references to document ids by the record_feedback calls of one behaviour
MaxSessionEvents == 2

\* used_doc_ids of the feedback the sessions submit
SessionIdLists == {<<"d1">>, <<"d1", "d2">>}

Loading(s) == sessions[s] # NoCall

\* the ids referenced by the calls in progress
RECURSIVE PendingRefs(_)
PendingRefs(ss) ==
    IF ss = {} THEN 0
    ELSE LET s == CHOOSE x \in ss : TRUE
         IN (IF Loading(s) THEN Len(sessions[s].used_doc_ids) ELSE 0) + PendingRefs(ss \ {s})

\* what the session's dict holds now: its "doc_boosts" is the dict of
\* DEFAULT_FEEDBACK when _load handed that object out
Held(s) ==
    IF sessions[s].aliased
    THEN [sessions[s].data EXCEPT !.doc_boosts = default_doc_boosts]
    ELSE sessions[s].data

\* the boosts a reader sees are added to the views a running retrieve has
\* lived through
Seen(view) ==
    IF scan = NoCall THEN scan ELSE [scan EXCEPT !.views = @ \cup {view}]

\* data = _load()
FbLoad(s) ==
    /\ ~Loading(s)
    /\ \E thumbs_up \in BOOLEAN, used_doc_ids \in SessionIdLists :
          /\ TotalCalls(DocIds) + PendingRefs(Sessions) + Len(used_doc_ids) <= MaxSessionEvents
          /\ sessions' = [sessions EXCEPT ![s] =
                             [status |-> "loaded", thumbs_up |-> thumbs_up,
                              used_doc_ids |-> used_doc_ids, data |-> _load.data,
                              aliased |-> _load.aliased, loaded |-> _load.data,
                              raced |-> FALSE]]
    /\ UNCHANGED <<file, default_doc_boosts, corpus, result, tally, faults, request, scan>>

\* lines 57-76: the counters are set in the session's own dict, the boosts
\* are written into the dict its "doc_boosts" refers to
FbModify(s) ==
    /\ Loading(s)
    /\ sessions[s].status = "loaded"
    /\ LET data == Updated(Held(s), sessions[s].thumbs_up, sessions[s].used_doc_ids, "")
       IN /\ sessions' = [sessions EXCEPT ![s].status = "modified", ![s].data = data]
          /\ default_doc_boosts' =
                IF sessions[s].aliased THEN data.doc_boosts ELSE default_doc_boosts
    /\ UNCHANGED <<file, corpus, result, tally, faults, request>>
    /\ scan' = Seen(get_doc_boosts')

\* _save(data); return data.  Every other session that has loaded and not
\* yet saved has been raced by this write.
FbSave(s) ==
    /\ Loading(s)
    /\ sessions[s].status = "modified"
    /\ \E io \in IoOutcomes :
          /\ io # "ok" => faults < MaxFaults
          /\ file' = _save(Held(s), io)
          /\ faults' = faults + (IF io = "ok" THEN 0 ELSE 1)
          /\ result' = [op |-> "record_feedback", session |-> s, io |-> io,
                        thumbs_up |-> sessions[s].thumbs_up,
                        used_doc_ids |-> sessions[s].used_doc_ids,
                        loaded |-> sessions[s].loaded, raced |-> sessions[s].raced,
                        before |-> file]
          /\ sessions' = [t \in Sessions |->
                             IF t = s THEN NoCall
                             ELSE IF Loading(t) /\ io # "open_fails"
                                  THEN [sessions[t] EXCEPT !.raced = TRUE]
                                  ELSE sessions[t]]
    /\ tally' = [d \in DocIds |->
                    LET n == Occurrences(sessions[s].used_doc_ids, d)
                    IN IF n = 0 THEN tally[d]
                       ELSE [ups |-> tally[d].ups + (IF sessions[s].thumbs_up THEN 1 ELSE 0),
                             downs |-> tally[d].downs + (IF sessions[s].thumbs_up THEN 0 ELSE 1),
                             once |-> tally[d].once /\ n = 1]]
    /\ UNCHANGED <<default_doc_boosts, corpus, request>>
    /\ scan' = Seen(get_doc_boosts')

\* retrieve(query, k=5) up to the scoring loop: kws, sims and the chosen
\* indices
ScanStart ==
    /\ scan = NoCall
    /\ Len(corpus) > 0
    /\ \E query \in Queries :
          \E idxs \in TopKBySim(query.sims, Min(RunK, Len(corpus))) :
              scan' = [status |-> "running", query |-> query, k |-> RunK, idxs |-> idxs,
                       scored |-> <<>>, views |-> {get_doc_boosts}]
    /\ UNCHANGED <<file, default_doc_boosts, corpus, result, tally, faults, request, sessions>>

\* one iteration of the scoring loop: _precedent_score reads the boosts anew
ScanScore ==
    /\ scan # NoCall
    /\ Len(scan.scored) < Len(scan.idxs)
    /\ LET idx == scan.idxs[Len(scan.scored) + 1]
           d == corpus[idx]
           score == _precedent_score(scan.query.sims[idx], d, _issue_keywords(scan.query.text))
       IN scan' = [scan EXCEPT !.scored = Append(@, [score |-> score, doc |-> d])]
    /\ UNCHANGED <<file, default_doc_boosts, corpus, result, tally, faults, request, sessions>>

\* return scored
ScanReturn ==
    /\ scan # NoCall
    /\ Len(scan.scored) = Len(scan.idxs)
    /\ result' = [op |-> "retrieve", query |-> scan.query, k |-> scan.k,
                  views |-> scan.views, ret |-> [raised |-> FALSE, value |-> scan.scored]]
    /\ scan' = NoCall
    /\ UNCHANGED <<file, default_doc_boosts, corpus, tally, faults, request, sessions>>

\* a server process that starts with no feedback file or with the one an
\* earlier run left, over the first two documents of the scenario corpus
InitSessions ==
    /\ file \in {[status |-> "missing", data |-> NoData], SaturatedFile}
    /\ default_doc_boosts = EmptyDict
    /\ result = [op |-> "none"]
    /\ tally = [d \in DocIds |-> [ups |-> 0, downs |-> 0, once |-> TRUE]]
    /\ faults = 0
    /\ request = NoCall
    /\ sessions = [s \in Sessions |-> NoCall]
    /\ scan = NoCall
    /\ corpus = SubSeq(ScenarioCorpus, 1, 2)

\* the sessions submit feedback concurrently
NextSessions == \E s \in Sessions : FbLoad(s) \/ FbModify(s) \/ FbSave(s)

SpecSessions == InitSessions /\ [][NextSessions]_vars

\* the feedback file after one thumbs-up event on d1 and d2
StartedFile ==
    [status |-> "valid",
     data |-> [style_bullets |-> 0, style_citations |-> StyleMax,
               emphasis_proportionality |-> StyleMax,
               doc_boosts |-> [d \in {"d1", "d2"} |-> BoostDelta]]]

\* a server process that starts with the feedback file of an earlier run
InitScan ==
    /\ file = StartedFile
    /\ default_doc_boosts = EmptyDict
    /\ result = [op |-> "none"]
    /\ tally = [d \in DocIds |-> [ups |-> 0, downs |-> 0, once |-> TRUE]]
    /\ faults = 0
    /\ request = NoCall
    /\ sessions = [s \in Sessions |-> NoCall]
    /\ scan = NoCall
    /\ corpus = SubSeq(ScenarioCorpus, 1, 2)

\* one session submits feedback while another retrieves
NextScan ==
    \/ \E s \in {"s1"} : FbLoad(s) \/ FbModify(s) \/ FbSave(s)
    \/ ScanStart \/ ScanScore \/ ScanReturn

SpecScan == InitScan /\ [][NextScan]_vars

(***************************************************************************)
(* Properties of the feedback store, checked under Spec.                   *)
(***************************************************************************)
\* the boost a reader gets for id d: get_doc_boosts().get(d, 0.0)
Boost(d) == Get(get_doc_boosts, d, 0)

Clip(x) == Max(-BoostClip, Min(BoostClip, x))

InClip(boosts) == \A d \in DOMAIN boosts : -BoostClip <= boosts[d] /\ boosts[d] <= BoostClip

PristineDefault ==
    [style_bullets |-> 0, style_citations |-> 1, emphasis_proportionality |-> 1,
     doc_boosts |-> EmptyDict]

\* C3: after any sequence of record_feedback calls, every value in doc_boosts
\* of the persisted state, of what a reader loads and of the state any
\* further record_feedback call returns lies in [-0.2, 0.2].
C3_BoostsClipped ==
    /\ file.status = "valid" => InClip(file.data.doc_boosts)
    /\ InClip(get_doc_boosts)
    /\ \A thumbs_up \in BOOLEAN, used_doc_ids \in IdLists(FeedbackIds), notes \in Notes :
          InClip(RecordData(thumbs_up, used_doc_ids, notes).doc_boosts)

\* C3 witness: more thumbs-up events than the clip admits were recorded for d1
\* and the persisted boost sits on the upper bound.
C3_Witness ==
    /\ file.status = "valid"
    /\ tally["d1"].ups > BoostClip \div BoostDelta
    /\ tally["d1"].downs = 0
    /\ file.data.doc_boosts["d1"] = BoostClip
    /\ result.op = "record_feedback"

\* C4 as stated: after N thumbs-up calls referencing d (and no thumbs-down
\* call referencing d), the boost of d is min(0.2, 0.02*N).
C4_Original ==
    \A d \in DocIds :
        tally[d].downs = 0 => Boost(d) = Min(BoostClip, BoostDelta * tally[d].ups)

\* C4 amended: after N thumbs-up calls that each list d exactly once, with no
\* thumbs-down call referencing d and every record_feedback call so far
\* written successfully, the boost of d is min(0.2, 0.02*N).
C4_UpsOnly ==
    \A d \in DocIds :
        (tally[d].downs = 0 /\ tally[d].once /\ faults = 0)
            => Boost(d) = Min(BoostClip, BoostDelta * tally[d].ups)

\* C4 witness: eleven clean thumbs-up calls on d1, the boost capped at 0.2.
C4_Witness ==
    /\ tally["d1"].downs = 0 /\ tally["d1"].once /\ faults = 0
    /\ tally["d1"].ups = (BoostClip \div BoostDelta) + 1
    /\ Boost("d1") = BoostClip

\* C5 as stated, read in its most favourable way (each event lists d once and
\* every write succeeded): the boost of d is clip(0.02*(ups - downs)).
C5_Original ==
    \A d \in DocIds :
        (tally[d].once /\ faults = 0)
            => Boost(d) = Clip(BoostDelta * (tally[d].ups - tally[d].downs))

\* C5 amended: the boost is the running sum clipped after every event: a
\* successfully written event that lists d once (d never listed twice before)
\* moves the boost of d from b to clip(b + 0.02) or clip(b - 0.02).
C5_ClippedRunningSum ==
    [][\A d \in DocIds :
          (tally'[d] # tally[d] /\ tally'[d].once /\ faults' = faults)
              => Boost(d)' = Clip(Boost(d) + (IF tally'[d].ups > tally[d].ups
                                              THEN BoostDelta ELSE -BoostDelta))]_vars

\* C5 witness: a clean mixed run in which an event was clipped, so that the
\* boost differs from the clipped net sum.
C5_Witness ==
    /\ tally["d1"].once /\ faults = 0
    /\ tally["d1"].ups > BoostClip \div BoostDelta
    /\ tally["d1"].downs = 1
    /\ Boost("d1") = BoostClip - BoostDelta

StyleOk(v) == v \in 0..StyleMax

StylesOk(d) ==
    StyleOk(d.style_bullets) /\ StyleOk(d.style_citations) /\ StyleOk(d.emphasis_proportionality)

\* C6: after any sequence of record_feedback calls, style_bullets,
\* style_citations and emphasis_proportionality are integers in [0, 2], in the
\* persisted state, in get_style_flags and in the state any further
\* record_feedback call returns.
C6_StyleBounded ==
    /\ file.status = "valid" => StylesOk(file.data)
    /\ StylesOk(get_style_flags)
    /\ \A thumbs_up \in BOOLEAN, used_doc_ids \in IdLists(FeedbackIds), notes \in Notes :
          StylesOk(RecordData(thumbs_up, used_doc_ids, notes))

\* C6 witness: more events of each kind than the cap admits, all three
\* counters persisted at 2.
C6_Witness ==
    /\ file.status = "valid"
    /\ tally["d1"].ups > StyleMax /\ tally["d1"].downs > StyleMax
    /\ file.data.style_bullets = StyleMax
    /\ file.data.style_citations = StyleMax
    /\ file.data.emphasis_proportionality = StyleMax

\* C8: whenever the feedback file is missing or cannot be parsed, _load
\* returns the default state (0, 1, 1, empty doc_boosts), also after earlier
\* record_feedback calls.
C8_LoadDefault ==
    file.status # "valid" => _load.data = PristineDefault

\* C9: a record_feedback call whose write fails is a no-op for the observable
\* feedback state: get_doc_boosts and get_style_flags return afterwards what
\* they returned before it.
C9_FailedWriteNoOp ==
    [][faults' > faults =>
          (get_doc_boosts' = get_doc_boosts /\ get_style_flags' = get_style_flags)]_vars


(***************************************************************************)
(* Properties of retrieval and grounding, checked under SpecRank.          *)
(***************************************************************************)
Retrieved == result.op = "retrieve" /\ ~result.ret.raised

ResultIds(v) == {v[i].doc.id : i \in DOMAIN v}

\* C1: the list returned by retrieve(query, k) is ordered by the final score,
\* non-increasing: result[i].score >= result[i+1].score for adjacent results.
C1_SortedByScore ==
    Retrieved =>
        LET v == result.ret.value
        IN \A i \in 1..(Len(v) - 1) : v[i].score >= v[i + 1].score

\* C2: retrieve(query, k) with k smaller than the corpus returns the k
\* documents of highest combined score: no document left out has a combined
\* score strictly greater than a document in the result.
C2_TopKByScore ==
    (Retrieved /\ result.k < Len(corpus)) =>
        LET v == result.ret.value
            kws == _issue_keywords(result.query.text)
        IN \A o \in DOMAIN corpus : \A i \in DOMAIN v :
              corpus[o].id \notin ResultIds(v)
                  => _precedent_score(result.query.sims[o], corpus[o], kws) <= v[i].score

\* C7: in the grounding of run_agent and in evidence_check, a claim whose
\* text contains no key term has an empty citation list.
C7_NoTermNoCites ==
    /\ (result.op = "run_agent" /\ ~result.ret.raised) =>
           \A c \in DOMAIN claims_probe :
              claims_probe[c].terms \cap KeyTerms = {}
                  => result.ret.value.grounding[c].cites = {}
    /\ result.op = "evidence_check" =>
           \A c \in DOMAIN claims_probe :
              claims_probe[c].terms \cap KeyTerms = {}
                  => result.ret.value[c].cites = {}

\* C10: retrieve(query, k) raises no error and returns exactly min(k, N)
\* results for a corpus of N documents, every document exactly once when
\* k > N, for every N including 0.
C10_ClampedToCorpus ==
    result.op = "retrieve" =>
        /\ ~result.ret.raised
        /\ LET v == result.ret.value
           IN /\ Len(v) = Min(result.k, Len(corpus))
              /\ Cardinality(ResultIds(v)) = Len(v)
              /\ result.k > Len(corpus)
                    => ResultIds(v) = {corpus[i].id : i \in DOMAIN corpus}

(***************************************************************************)
(* Properties of the orchestrator, checked under SpecAgent.                *)
(***************************************************************************)
IsPrefix(p, q) == Len(p) <= Len(q) /\ \A i \in DOMAIN p : p[i] = q[i]

Finished == result.op = "run_agent"

\* C11: a run_agent request passes through ISSUES_DETECTED, PLAN_BUILT,
\* RETRIEVED, GROUNDED, DRAFTED, SCORED, DONE in exactly that order with none
\* skipped, and a request whose drafting call fails ends with the failure
\* raised to the caller, having reached neither DRAFTED, SCORED nor DONE, and
\* returns no result.
C11_StagesInOrder ==
    /\ request # NoCall =>
          /\ request.stages # <<>>
          /\ IsPrefix(request.stages, StageOrder)
          /\ ~request.draft_failed
    /\ Finished =>
          /\ IsPrefix(result.stages, StageOrder)
          /\ ~result.ret.raised => result.stages = StageOrder
          /\ result.draft_failed =>
                /\ result.ret.raised
                /\ "value" \notin DOMAIN result.ret
                /\ result.stages = SubSeq(StageOrder, 1, 4)

\* C11 witness: a request went through the first four stages, its drafting
\* call failed and the caller got the exception.
C11_Witness ==
    /\ Finished
    /\ result.draft_failed
    /\ result.ret.raised
    /\ result.stages = <<"ISSUES_DETECTED", "PLAN_BUILT", "RETRIEVED", "GROUNDED">>

\* plan_steps was called on the issue tags {privacy, biometric}
PlanTarget == result.op = "plan_steps" /\ result.issues = {"privacy", "biometric"}

NoDuplicates(q) == \A i, j \in DOMAIN q : i # j => q[i] # q[j]

\* C13 as stated: plan_steps on {privacy, biometric} starts with the fixed
\* legality/aim step, ends with the fixed draft/outcome step, has four
\* proportionality sub-steps in between and no step text twice.
C13_Original ==
    PlanTarget =>
        LET plan == result.ret.value
        IN /\ Head(plan) = FirstStep
           /\ plan[Len(plan)] = LastStep
           /\ Cardinality({i \in 2..(Len(plan) - 1) :
                              plan[i] \in SeqRange(ProportionalitySteps)}) = 4
           /\ NoDuplicates(plan)

\* the plan of five steps for privacy and biometric issues
ThreeSubStepPlan(plan) ==
    /\ Len(plan) = 5
    /\ plan[1] = "Confirm enabling law (legality) and legitimate aim."
    /\ plan[2] = "Assess suitability to the aim."
    /\ plan[3] = "Assess necessity (less intrusive means)."
    /\ plan[4] = "Assess balancing and safeguards (purpose, storage, oversight)."
    /\ plan[5] = "Draft positions and propose outcome."
    /\ NoDuplicates(plan)

\* C13 amended: plan_steps on {privacy, biometric}, called directly or by
\* run_agent, starts with the fixed legality/aim step, ends with the fixed
\* draft/outcome step, has exactly the three proportionality sub-steps
\* (suitability, necessity, balancing and safeguards) in between and no step
\* text twice.
C13_ThreeSubSteps ==
    /\ PlanTarget => ThreeSubStepPlan(result.ret.value)
    /\ (request # NoCall /\ Len(request.stages) >= 2
            /\ request.raw_issues = {"privacy", "biometric"})
          => ThreeSubStepPlan(request.plan)

\* C13 witness: plan_steps returned a plan of five steps for {privacy,
\* biometric}.
C13_Witness ==
    /\ PlanTarget
    /\ Len(result.ret.value) = 5
    /\ result.ret.value[3] = ProportionalitySteps[2]

ConfOk(c) == ConfMin <= c /\ c <= ConfMax

\* C14: for every query and every retrieved list, the empty list and lists
\* with boosted scores included, the confidence _verdict_confidence computes
\* and the confidence run_agent returns lie in [0.5, 0.9]; with an empty
\* retrieved list the confidence is 0.5.
C14_ConfidenceBounded ==
    /\ result.op = "_verdict_confidence" =>
          /\ ConfOk(result.ret.value)
          /\ result.retrieved = <<>> => result.ret.value = ConfMin
    /\ (request # NoCall /\ Len(request.stages) >= 6) => ConfOk(request.conf)
    /\ (Finished /\ ~result.ret.raised) => ConfOk(result.ret.value.confidence)

\* C14 witness: run_agent, over scores raised and lowered by saturated
\* boosts, returned a confidence above the floor.
C14_Witness ==
    /\ Finished
    /\ ~result.ret.raised
    /\ file = SaturatedFile
    /\ \E i \in DOMAIN result.ret.value.retrieved :
          Get(get_doc_boosts, result.ret.value.retrieved[i].doc.id, 0) # 0
    /\ result.ret.value.confidence > ConfMin

(***************************************************************************)
(* Properties of concurrent sessions, checked under SpecSessions and       *)
(* SpecScan.                                                               *)
(***************************************************************************)
\* the latest call is a record_feedback whose write succeeded
Saved == result.op = "record_feedback" /\ result.io = "ok"

\* C12: when two record_feedback calls interleave so that both load before
\* either saves, the persisted state after the second save is the last
\* writer's alone, computed from what it loaded, and the other call's update
\* is lost; when no other call saved between a call's load and its save, the
\* call worked on the persisted state as the previous call left it.
C12_LastWriterWins ==
    Saved =>
        /\ result.raced =>
              file.data = Updated(result.loaded, result.thumbs_up, result.used_doc_ids, "")
        /\ (~result.raced /\ result.before.status = "valid") =>
              \A key \in DOMAIN result.before.data : result.loaded[key] = result.before.data[key]

\* the index of the document with id did in the corpus
IndexOf(did) == CHOOSE i \in DOMAIN corpus : corpus[i].id = did

\* C15: within one retrieve call all returned documents are scored against
\* a single snapshot of the feedback boosts: also when record_feedback runs
\* concurrently, there is one feedback state S, among those a reader could
\* see during the call, such that every result's score is its base score
\* plus S's boost for that document.  (Read in its most favourable way:
\* every write of the concurrent calls succeeded.)
C15_SingleSnapshot ==
    (result.op = "retrieve" /\ ~result.ret.raised /\ faults = 0) =>
        \E S \in result.views :
            \A i \in DOMAIN result.ret.value :
                LET r == result.ret.value[i]
                    base == BaseScore(result.query.sims[IndexOf(r.doc.id)], r.doc,
                                      _issue_keywords(result.query.text))
                IN r.score = base + Get(S, r.doc.id, 0)

====
